---- MODULE Spec2Model ----
(***************************************************************************)
(* Admission control of POST /generate-exam (src/app.py): the limiter key  *)
(* function, the two flask-limiter windows ("2 per minute", "50 per day"),  *)
(* the token quota read and decrement against the tokens collection, and   *)
(* the call of the text generator.  Requests are handled concurrently; a   *)
(* request's steps interleave with other requests' at every access to the  *)
(* tokens collection and to the limiter's storage.                         *)
(***************************************************************************)
EXTENDS Integers, Sequences, FiniteSets

\* ------------------------------------------------------------------ bounds
\* Requests the server handles at the same time in Spec.
NumSlots == 1
\* Requests bearing one credential that SpecRace handles at the same time.
NumReq == 2
\* Largest quota a provisioned token starts with.
MaxQuota == 2
\* Length of the limiter's windows in clock ticks (a tick is 30 s; the day is
\* scaled down so that 50 admissions fit into one day window of the model).
MinuteLen == 2
DayLen == 50
\* How far past a limit a window's counter may be driven before arrivals stop.
MaxOver == 1

\* ------------------------------------------------------- program constants
PerMinute == 2
PerDay == 50

\* ------------------------------------------------------------- the inputs
Addrs == {"ip1", "ip2"}
Unmetered == "None"

\* A string is a sequence of characters; SP is the whitespace character.
SP == " "
Empty == <<>>
\* TokA and TokB have records in the tokens collection, TokC has none.
TokA == <<"A">>
TokB == <<"B">>
TokC == <<"C">>

\* The token taken as sent, not stripped.
NoStrip(s) == s

\* Python's str.strip(): drop leading and trailing whitespace.
RECURSIVE LStrip(_)
LStrip(s) == IF s # <<>> /\ Head(s) = SP THEN LStrip(Tail(s)) ELSE s

RECURSIVE RStrip(_)
RStrip(s) ==
    IF s # <<>> /\ s[Len(s)] = SP THEN RStrip(SubSeq(s, 1, Len(s) - 1)) ELSE s

Strip(s) == RStrip(LStrip(s))

\* Request bodies, by what request.get_json(silent=True) makes of them:
\*   kind "none"    no body, or not well-formed JSON      (data is None)
\*   kind "falsy"   well-formed but falsy, such as {}      (not data)
\*   kind "nondict" a truthy JSON value that is no object  (a list, a string)
\*   kind "obj"     a non-empty JSON object; tk tells whether "token" is
\*                  absent, a string (token holds it) or no string (null, 5)
Body(k, tk, tok) == [kind |-> k, tk |-> tk, token |-> tok]
NoBody == Body("none", "absent", Empty)
FalsyBody == Body("falsy", "absent", Empty)
NonDictBody == Body("nondict", "absent", Empty)
AnonBody == Body("obj", "absent", Empty)
NonStringTokenBody == Body("obj", "nonstring", Empty)
TokenBody(s) == Body("obj", "string", s)

RawTokens == {Empty, <<SP>>, <<SP, "A">>, TokC}
Bodies ==
    {NoBody, FalsyBody, NonDictBody, AnonBody, NonStringTokenBody}
        \cup {TokenBody(s) : s \in RawTokens}

\* ------------------------------------------------------------------ state
VARIABLES
    hasStore,   \* tokens_collection is not None
    store,      \* the tokens collection: token |-> quota, one record per token
    store0,     \* the tokens collection at start-up (history)
    count,      \* limiter storage: count[lim][addr], hits in the open window
    ttl,        \* limiter storage: ticks until count[lim][addr] expires, 0 = none
    req,        \* the request handled in each slot
    passed,     \* passed[lim][addr]: hits of the open window that were within
                \* the limit (history, read by no operation)
    recent      \* recent[addr][age]: requests admitted age ticks ago, for the
                \* ages below MinuteLen (history, read by no operation)

vars == <<hasStore, store, store0, count, ttl, req, passed, recent>>

Reqs == DOMAIN req
Limits == {"minute", "day"}
LimitAmount(lim) == IF lim = "minute" THEN PerMinute ELSE PerDay
LimitLen(lim) == IF lim = "minute" THEN MinuteLen ELSE DayLen

IpLimit == [kind |-> "IP Limit", n |-> 0]
Num(n) == [kind |-> "int", n |-> n]

\* A request slot.  keyMinute, keyDay: what get_rate_limit_key returned for
\* each limit; hitMinute, hitDay: the counter value the limiter's hit saw (0
\* when the limit was skipped); seenMinute, seenDay: passed[lim][addr] just
\* before the hit (history); wrote, generated: whether the request issued the
\* $inc and called the generator (history).
IdleReq ==
    [pc |-> "idle", addr |-> "ip1", body |-> NoBody,
     keyMinute |-> "", keyDay |-> "", hitMinute |-> 0, hitDay |-> 0,
     seenMinute |-> 0, seenDay |-> 0,
     current_quota |-> 0, quota_remaining |-> IpLimit,
     status |-> 0, err |-> "", wrote |-> FALSE, generated |-> FALSE]

\* ------------------------------------------------------------ quota store
EmptyStore == [t \in {} |-> 0]

\* The lookup its docstring describes: a token with no record is created on
\* first sight and reads as a fresh quota of 1.
get_token_quota_autocreate(token) ==
    IF ~hasStore THEN 0
    ELSE IF token \in DOMAIN store THEN store[token]
    ELSE 1

\* get_token_quota: 0 without a store, 0 for a token with no record.
get_token_quota(token) ==
    IF ~hasStore THEN 0
    ELSE IF token \in DOMAIN store THEN store[token]
    ELSE 0

\* The update without its filter: every record is decremented.
decrement_every_record(token) ==
    IF hasStore THEN [t \in DOMAIN store |-> store[t] - 1] ELSE store

\* update_one with upsert: a token without a record gets one, at -1.
decrement_token_quota_upsert(token) ==
    IF ~hasStore THEN store
    ELSE [t \in DOMAIN store \cup {token} |->
             IF t = token
             THEN (IF t \in DOMAIN store THEN store[t] ELSE 0) - 1
             ELSE store[t]]

\* decrement_token_quota: update_one({"token": token}, {"$inc": {"quota": -1}}),
\* one atomic update of the matching record; nothing without a store or
\* without a matching record.
decrement_token_quota(token) ==
    IF hasStore /\ token \in DOMAIN store
    THEN [store EXCEPT ![token] = @ - 1]
    ELSE store

\* ---------------------------------------------------------------- limiter
\* The key function exempting only a quota above 1.
get_rate_limit_key_above_one(a, b) ==
    IF b.kind = "obj" /\ b.tk = "string" /\ get_token_quota(Strip(b.token)) > 1
    THEN Unmetered
    ELSE a

\* The key function without the quota lookup: any token exempts the request.
get_rate_limit_key_any_token(a, b) ==
    IF b.kind = "obj" /\ b.tk = "string" THEN Unmetered ELSE a

\* The key function looking the token up as sent, not stripped.
get_rate_limit_key_unstripped(a, b) ==
    IF b.kind = "obj" /\ b.tk = "string" /\ get_token_quota(b.token) > 0
    THEN Unmetered
    ELSE a

\* get_rate_limit_key: None (no limiting) for a body whose token, stripped,
\* has a positive quota; the remote address otherwise, also when reading the
\* token raises (the bare except).
get_rate_limit_key(a, b) ==
    IF b.kind = "obj" /\ b.tk = "string" /\ get_token_quota(Strip(b.token)) > 0
    THEN Unmetered
    ELSE a

\* The fixed-window counter of the limiter's memory storage: a hit opens a
\* window of LimitLen(lim) when none is open, and adds one to its counter.
HitValue(lim, a) == IF ttl[lim][a] = 0 THEN 1 ELSE count[lim][a] + 1

\* The comparison off by one: a hit one past the amount still passes.
WithinLimitOffByOne(lim, n) == n <= LimitAmount(lim) + 1

\* FixedWindowRateLimiter.hit: the hit passes while the counter, this hit
\* included, is within the limit's amount.
WithinLimit(lim, n) == n <= LimitAmount(lim)

\* The limiter's check of one limit for request r: skipped for the key None,
\* a hit of the address's window otherwise.
CheckLimit(r, lim) ==
    LET a == req[r].addr
        key == get_rate_limit_key(a, req[r].body)
        n == HitValue(lim, a)
    IN  IF key = Unmetered
        THEN /\ UNCHANGED <<count, ttl, passed>>
        ELSE /\ count' = [count EXCEPT ![lim][a] = n]
             /\ ttl' = [ttl EXCEPT ![lim][a] = IF @ = 0 THEN LimitLen(lim) ELSE @]
             /\ passed' = [passed EXCEPT ![lim][a] =
                               (IF ttl[lim][a] = 0 THEN 0 ELSE @)
                                   + (IF WithinLimit(lim, n) THEN 1 ELSE 0)]

\* ----------------------------------------------------------- the handler
\* The token the handler works with: data.get('token', '').strip().
HandlerToken(b) == IF b.tk = "string" THEN Strip(b.token) ELSE Empty

StoreError == "Server Database Error (Contact Admin)"

\* A finished request: its response.
Done(q, status, err) == [q EXCEPT !.pc = "done", !.status = status, !.err = err]

\* The handler without its check that a store is configured.
HandlerEntryNoStoreCheck(q) ==
    LET b == q.body IN
    IF b.kind \in {"none", "falsy"} THEN Done(q, 400, "Invalid JSON")
    ELSE IF b.kind = "nondict" \/ b.tk = "nonstring" THEN Done(q, 500, "exception")
    ELSE IF HandlerToken(b) = Empty THEN [q EXCEPT !.pc = "generate"]
    ELSE [q EXCEPT !.pc = "read_quota"]

\* generate_exam up to its first access to the tokens collection, for a
\* request that passed the limiter: 400 for a body that is None or falsy, 500
\* for what raises (data.get on a value that is no object, strip on a token
\* that is no string), 500 for a token without a store; a request with a token
\* goes on to read its quota, one without goes on to the generator.
HandlerEntry(q) ==
    LET b == q.body IN
    IF b.kind \in {"none", "falsy"} THEN Done(q, 400, "Invalid JSON")
    ELSE IF b.kind = "nondict" \/ b.tk = "nonstring" THEN Done(q, 500, "exception")
    ELSE IF HandlerToken(b) = Empty THEN [q EXCEPT !.pc = "generate"]
    ELSE IF ~hasStore THEN Done(q, 500, StoreError)
    ELSE [q EXCEPT !.pc = "read_quota"]

\* ratelimit_handler: the response to a request a limit rejected.
ratelimit_handler(q) == Done(q, 429, "rate limit")

\* Whether the limiter lets the request through: every limit it hit was
\* within its amount.
LimiterPasses(q) ==
    WithinLimit("minute", q.hitMinute) /\ WithinLimit("day", q.hitDay)

\* The body validated ahead of the limiter's verdict: a missing or empty body
\* is answered 400 even when a window is full.
BodyCheckFirst(q) ==
    IF q.body.kind \in {"none", "falsy"} THEN HandlerEntry(q)
    ELSE IF LimiterPasses(q) THEN HandlerEntry(q)
    ELSE ratelimit_handler(q)

\* The decorators run around generate_exam: the limiter's verdict comes first,
\* the handler body starts only when every limit was within its amount.
AfterLimiter(q) ==
    IF LimiterPasses(q) THEN HandlerEntry(q) ELSE ratelimit_handler(q)

\* ---------------------------------------------------------------- actions
\* A POST /generate-exam from address a with body b reaches the server.
Arrive(r, a, b) ==
    /\ req[r].pc = "idle"
    /\ req' = [req EXCEPT ![r] =
                  [IdleReq EXCEPT !.pc = "limit_minute", !.addr = a, !.body = b]]
    /\ UNCHANGED <<hasStore, store, store0, count, ttl, passed, recent>>

\* The limiter checks "2 per minute": it computes the key (a quota read) and
\* hits the address's minute window.
LimitMinute(r) ==
    /\ req[r].pc = "limit_minute"
    /\ LET a == req[r].addr
           key == get_rate_limit_key(a, req[r].body)
       IN  /\ CheckLimit(r, "minute")
           /\ req' = [req EXCEPT ![r] =
                         [@ EXCEPT !.pc = "limit_day",
                                   !.keyMinute = key,
                                   !.hitMinute =
                                       IF key = Unmetered THEN 0
                                       ELSE HitValue("minute", a),
                                   !.seenMinute =
                                       IF ttl["minute"][a] = 0 THEN 0
                                       ELSE passed["minute"][a]]]
    /\ UNCHANGED <<hasStore, store, store0, recent>>

\* The limiter checks "50 per day" the same way, then either rejects the
\* request (429) or lets the handler start.
LimitDay(r) ==
    /\ req[r].pc = "limit_day"
    /\ LET a == req[r].addr
           key == get_rate_limit_key(a, req[r].body)
           q == [req[r] EXCEPT !.keyDay = key,
                               !.hitDay =
                                   IF key = Unmetered THEN 0
                                   ELSE HitValue("day", a),
                               !.seenDay =
                                   IF ttl["day"][a] = 0 THEN 0
                                   ELSE passed["day"][a]]
           next == AfterLimiter(q)
       IN  /\ CheckLimit(r, "day")
           /\ req' = [req EXCEPT ![r] = next]
           /\ recent' = IF next.pc = "generate"
                        THEN [recent EXCEPT ![a][0] = @ + 1]
                        ELSE recent
    /\ UNCHANGED <<hasStore, store, store0>>

\* The quota check with < for <=: a quota of 0 passes.
QuotaExhaustedStrict(q) == q < 0

\* "if current_quota <= 0": the quota check of the handler.
QuotaExhausted(q) == q <= 0

\* The handler decrementing before it checks the quota it read.
ReadQuotaDecrementFirst(r) ==
    /\ req[r].pc = "read_quota"
    /\ LET q == get_token_quota(HandlerToken(req[r].body)) IN
       req' = [req EXCEPT ![r] =
                  IF QuotaExhausted(q)
                  THEN Done([@ EXCEPT !.current_quota = q, !.wrote = TRUE], 403,
                            "Invalid or Exhausted Token")
                  ELSE [@ EXCEPT !.pc = "generate", !.current_quota = q,
                                 !.wrote = TRUE,
                                 !.quota_remaining = Num(q - 1)]]
    /\ store' = decrement_token_quota(HandlerToken(req[r].body))
    /\ UNCHANGED <<hasStore, store0, count, ttl, passed, recent>>

\* current_quota = get_token_quota(token); 403 when it is <= 0.
ReadQuota(r) ==
    /\ req[r].pc = "read_quota"
    /\ LET q == get_token_quota(HandlerToken(req[r].body)) IN
       req' = [req EXCEPT ![r] =
                  IF QuotaExhausted(q)
                  THEN Done([@ EXCEPT !.current_quota = q], 403,
                            "Invalid or Exhausted Token")
                  ELSE [@ EXCEPT !.pc = "decrement", !.current_quota = q]]
    /\ UNCHANGED <<hasStore, store, store0, count, ttl, passed, recent>>

\* A failed write that the decrement swallows: the handler goes on to the
\* generator with the quota it read, nothing written.
DecrementFailsSwallowed(r) ==
    /\ req[r].pc = "decrement"
    /\ req' = [req EXCEPT ![r] =
                  [@ EXCEPT !.pc = "generate",
                            !.quota_remaining = Num(req[r].current_quota - 1)]]
    /\ UNCHANGED <<hasStore, store, store0, count, ttl, passed, recent>>

\* update_one raises (the store rejects the write or cannot be reached, the
\* write not applied): decrement_token_quota has no handler of its own, so the
\* exception reaches "except Exception" of generate_exam, which answers 500.
DecrementFails(r) ==
    /\ req[r].pc = "decrement"
    /\ req' = [req EXCEPT ![r] = Done(@, 500, "write error")]
    /\ UNCHANGED <<hasStore, store, store0, count, ttl, passed, recent>>

\* decrement_token_quota(token); quota_remaining = current_quota - 1.
Decrement(r) ==
    /\ req[r].pc = "decrement"
    /\ store' = decrement_token_quota(HandlerToken(req[r].body))
    /\ req' = [req EXCEPT ![r] =
                  [@ EXCEPT !.pc = "generate", !.wrote = TRUE,
                            !.quota_remaining = Num(req[r].current_quota - 1)]]
    /\ UNCHANGED <<hasStore, store0, count, ttl, passed, recent>>

\* The generator step giving the unit back when the provider fails.
GenerateRefund(r, ok) ==
    /\ req[r].pc = "generate"
    /\ req' = [req EXCEPT ![r] =
                  Done([@ EXCEPT !.generated = TRUE],
                       IF ok THEN 200 ELSE 500,
                       IF ok THEN "" ELSE "provider")]
    /\ store' = IF ~ok /\ req[r].wrote
                THEN [store EXCEPT ![HandlerToken(req[r].body)] = @ + 1]
                ELSE store
    /\ UNCHANGED <<hasStore, store0, count, ttl, passed, recent>>

\* client.chat.completions.create(...): the provider answers (200, with the
\* X-Remaining-Quota header) or fails (500).
Generate(r, ok) ==
    /\ req[r].pc = "generate"
    /\ req' = [req EXCEPT ![r] =
                  Done([@ EXCEPT !.generated = TRUE],
                       IF ok THEN 200 ELSE 500,
                       IF ok THEN "" ELSE "provider")]
    /\ UNCHANGED <<hasStore, store, store0, count, ttl, passed, recent>>

\* The response is sent and the slot takes the next request.
Recycle(r) ==
    /\ req[r].pc = "done"
    /\ req' = [req EXCEPT ![r] = IdleReq]
    /\ UNCHANGED <<hasStore, store, store0, count, ttl, passed, recent>>

\* The clock advances one tick: a window whose time is up is dropped from the
\* limiter's storage.
Tick ==
    /\ ttl' = [lim \in Limits |-> [a \in Addrs |->
                  IF ttl[lim][a] = 0 THEN 0 ELSE ttl[lim][a] - 1]]
    /\ count' = [lim \in Limits |-> [a \in Addrs |->
                    IF ttl'[lim][a] = 0 THEN 0 ELSE count[lim][a]]]
    /\ passed' = [lim \in Limits |-> [a \in Addrs |->
                     IF ttl'[lim][a] = 0 THEN 0 ELSE passed[lim][a]]]
    /\ recent' = [a \in Addrs |-> [k \in 0 .. MinuteLen - 1 |->
                     IF k = 0 THEN 0 ELSE recent[a][k - 1]]]
    /\ UNCHANGED <<hasStore, store, store0, req>>

\* ---------------------------------------------------------- specifications
\* The tokens collection after provisioning: TokA with any quota from 0
\* (exhausted) up, TokB with quota 1.
Stores == {[t \in {TokA, TokB} |-> IF t = TokA THEN q ELSE 1] : q \in 0 .. MaxQuota}

InitLimiter ==
    /\ count = [lim \in Limits |-> [a \in Addrs |-> 0]]
    /\ ttl = [lim \in Limits |-> [a \in Addrs |-> 0]]
    /\ passed = [lim \in Limits |-> [a \in Addrs |-> 0]]
    /\ recent = [a \in Addrs |-> [k \in 0 .. MinuteLen - 1 |-> 0]]

\* After start-up: no store (MONGO_URI unset, or the connection failed), or a
\* store that holds the provisioned tokens; no request yet.
InitStore ==
    /\ \/ hasStore = FALSE /\ store = EmptyStore
       \/ hasStore = TRUE /\ store \in Stores
    /\ store0 = store

Init ==
    /\ InitStore
    /\ InitLimiter
    /\ req = [r \in 1 .. NumSlots |-> IdleReq]

\* Arrivals that would hit a window stop once its counter is MaxOver past its
\* limit.
CanArrive(a, b) ==
    \/ get_rate_limit_key(a, b) = Unmetered
    \/ \A lim \in Limits : count[lim][a] < LimitAmount(lim) + MaxOver

\* The service at one time of the clock: any requests from one address,
\* NumSlots at a time.
Next ==
    \/ \E r \in Reqs, b \in Bodies : CanArrive("ip1", b) /\ Arrive(r, "ip1", b)
    \/ \E r \in Reqs : LimitMinute(r)
    \/ \E r \in Reqs : LimitDay(r)
    \/ \E r \in Reqs : ReadQuota(r)
    \/ \E r \in Reqs : Decrement(r)
    \/ \E r \in Reqs : DecrementFails(r)
    \/ \E r \in Reqs, ok \in BOOLEAN : Generate(r, ok)
    \/ \E r \in Reqs : Recycle(r)

Spec == Init /\ [][Next]_vars

\* NumReq requests, bearing the credential TokA, the unprovisioned TokC or
\* none, from any addresses, handled at the same time; none follows them.
\* The addresses being interchangeable, the first request comes from "ip1".
RaceBodies ==
    {TokenBody(TokA), TokenBody(<<SP, "A">>), TokenBody(TokC), AnonBody}

InitRace ==
    /\ hasStore = TRUE
    /\ store \in Stores
    /\ store0 = store
    /\ InitLimiter
    /\ req = [r \in 1 .. NumReq |-> IdleReq]

NextRace ==
    \/ \E r \in Reqs, a \in Addrs, b \in RaceBodies :
          /\ \A k \in 1 .. r - 1 : req[k].pc # "idle"
          /\ r = 1 => a = "ip1"
          /\ Arrive(r, a, b)
    \/ \E r \in Reqs : LimitMinute(r)
    \/ \E r \in Reqs : LimitDay(r)
    \/ \E r \in Reqs : ReadQuota(r)
    \/ \E r \in Reqs : Decrement(r)
    \/ \E r \in Reqs : DecrementFails(r)
    \/ \E r \in Reqs, ok \in BOOLEAN : Generate(r, ok)

SpecRace == InitRace /\ [][NextRace]_vars

\* A stream of requests without credential from one address, one at a time,
\* while the clock runs.
WindowBodies == {AnonBody, FalsyBody}

InitWindows ==
    /\ hasStore = TRUE
    /\ store = [t \in {TokA, TokB} |-> 1]
    /\ store0 = store
    /\ InitLimiter
    /\ req = [r \in {1} |-> IdleReq]

NextWindows ==
    \/ \E b \in WindowBodies : CanArrive("ip1", b) /\ Arrive(1, "ip1", b)
    \/ LimitMinute(1)
    \/ LimitDay(1)
    \/ \E ok \in BOOLEAN : Generate(1, ok)
    \/ Recycle(1)
    \/ Tick

SpecWindows == InitWindows /\ [][NextWindows]_vars

\* The two functions of the quota store called directly, one call after the
\* other, on any token and any store: get_token_quota(t) read before and after
\* one decrement_token_quota(t).  The caller's slot keeps the token and the
\* two readings (status 0: no response is involved).
StoreTokens == {TokA, TokB, TokC}

AnyStores == [{TokA, TokB} -> 0 .. MaxQuota]

CallDecrement(r, t) ==
    /\ req[r].pc = "idle"
    /\ (hasStore /\ t \in DOMAIN store) => store[t] > -MaxQuota
    /\ store' = decrement_token_quota(t)
    /\ UNCHANGED <<hasStore, store0, count, ttl, passed, recent>>
    /\ req' = [req EXCEPT ![r] =
                  [IdleReq EXCEPT !.pc = "done", !.body = TokenBody(t),
                                  !.current_quota = get_token_quota(t),
                                  !.quota_remaining = Num(get_token_quota(t)')]]

InitStoreCalls ==
    /\ \/ hasStore = FALSE /\ store = EmptyStore
       \/ hasStore = TRUE /\ store \in AnyStores
    /\ store0 = store
    /\ InitLimiter
    /\ req = [r \in 1 .. 1 |-> IdleReq]

NextStoreCalls ==
    \/ \E r \in Reqs, t \in StoreTokens : CallDecrement(r, t)
    \/ \E r \in Reqs : Recycle(r)

SpecStore == InitStoreCalls /\ [][NextStoreCalls]_vars

\* ------------------------------------------------------------ vocabulary
Min(a, b) == IF a <= b THEN a ELSE b

InFlight(q) == q.pc \notin {"idle", "done"}
Quiescent == \A r \in Reqs : ~InFlight(req[r])
AllDone == \A r \in Reqs : req[r].pc = "done"

\* The request supplies the credential t (its token, stripped, is t # "").
Bears(q, t) == q.pc # "idle" /\ q.body.tk = "string" /\ Strip(q.body.token) = t

\* The admission decision Allowed: the request was handed to the generator.
Allowed(q) == q.pc = "generate" \/ q.generated

AllowedUnder(t) == {r \in Reqs : Bears(req[r], t) /\ Allowed(req[r])}

\* ------------------------------------------------------------------ claims
\* C1: of N requests bearing one credential of quota Q >= 1 that are handled
\* concurrently, exactly min(N, Q) are Allowed and the others get 403.
C1_ExactlyMinAllowed ==
    (/\ AllDone
     /\ \A r \in Reqs : Bears(req[r], TokA)
     /\ store0[TokA] >= 1)
        => /\ Cardinality(AllowedUnder(TokA)) = Min(Cardinality(Reqs), store0[TokA])
           /\ \A r \in Reqs \ AllowedUnder(TokA) : req[r].status = 403

\* C2: the Nth request admitted under a credential of initial quota Q reports
\* X-Remaining-Quota = Q - N, so no two admitted requests report the same
\* value.
C2_DistinctRemaining ==
    LET adm == AllowedUnder(TokA) IN
    /\ \A r \in adm : req[r].pc = "done" =>
           \E n \in 1 .. Cardinality(adm) :
               req[r].quota_remaining = Num(store0[TokA] - n)
    /\ \A r1, r2 \in adm :
           (r1 # r2 /\ req[r1].pc = "done" /\ req[r2].pc = "done")
               => req[r1].quota_remaining # req[r2].quota_remaining

\* C3: no decrement is lost: with no request in flight, each credential's
\* stored quota is its initial quota minus the number of requests Allowed
\* under it.
C3_NoLostDecrement ==
    Quiescent =>
        \A t \in DOMAIN store :
            store[t] = store0[t] - Cardinality(AllowedUnder(t))

\* Two requests were admitted under TokA, their steps interleaved (both read
\* the quota before either decremented it), and both have finished.
C3_Witness ==
    /\ AllDone
    /\ Cardinality(AllowedUnder(TokA)) >= 2
    /\ \A r \in AllowedUnder(TokA) : req[r].current_quota = store0[TokA]

\* Requests without credential from address a admitted in the last MinuteLen
\* ticks, this one included.
RECURSIVE SumRecent(_, _)
SumRecent(a, k) == IF k < 0 THEN 0 ELSE recent[a][k] + SumRecent(a, k - 1)

AdmittedLastMinute(a) == SumRecent(a, MinuteLen - 1)

PastLimiter(q) == q.pc \in {"read_quota", "decrement", "generate", "done"}

Credentialed(q) ==
    q.pc # "idle" /\ q.body.tk = "string" /\ Strip(q.body.token) # Empty

\* C5: a request whose credential has a stored quota > 0 when the limiter
\* computes a limit's key is keyed Unmetered for that limit: the step changes
\* no counter of any address and does not end in 429.
C5_PositiveQuotaUnmetered ==
    [][\A r \in Reqs :
          (/\ req[r].pc \in {"limit_minute", "limit_day"}
           /\ req'[r].pc # req[r].pc
           /\ Credentialed(req[r])
           /\ hasStore
           /\ Strip(req[r].body.token) \in DOMAIN store
           /\ store[Strip(req[r].body.token)] > 0)
              => /\ count' = count /\ ttl' = ttl
                 /\ req'[r].status # 429
                 /\ req[r].pc = "limit_minute" =>
                        (req'[r].keyMinute = Unmetered /\ req'[r].hitMinute = 0)
                 /\ req[r].pc = "limit_day" =>
                        (req'[r].keyDay = Unmetered /\ req'[r].hitDay = 0)]_vars

\* A credentialed request got 200, keyed Unmetered for both limits, while its
\* address's minute window was driven past its limit by earlier requests.
C5_Witness ==
    \E r \in Reqs :
        /\ req[r].pc = "done" /\ req[r].status = 200
        /\ Credentialed(req[r])
        /\ req[r].keyMinute = Unmetered /\ req[r].keyDay = Unmetered
        /\ count["minute"][req[r].addr] > PerMinute

\* C6 as stated: without a store, every request that supplies a credential
\* gets 500 "Server Database Error", whatever preceded it.
C6_AlwaysStoreError ==
    ~hasStore =>
        \A r \in Reqs :
            (req[r].pc = "done" /\ Credentialed(req[r]))
                => (req[r].status = 500 /\ req[r].err = StoreError)

\* C6, amended: without a store every token lookup returns 0, and a request
\* that supplies a credential gets 500 "Server Database Error" if the limiter
\* lets it through and 429 if not; it reaches neither the store nor the
\* generator.
C6_StoreErrorAfterLimiter ==
    ~hasStore =>
        /\ \A t \in {Empty, TokA, TokB, TokC} : get_token_quota(t) = 0
        /\ \A r \in Reqs :
              (req[r].pc # "idle" /\ Credentialed(req[r]))
                  => /\ req[r].pc \in {"limit_minute", "limit_day", "done"}
                     /\ ~req[r].wrote /\ ~req[r].generated
                     /\ req[r].pc = "done" =>
                            IF LimiterPasses(req[r])
                            THEN req[r].status = 500 /\ req[r].err = StoreError
                            ELSE req[r].status = 429

C6_Witness ==
    /\ ~hasStore
    /\ \E r \in Reqs :
          /\ req[r].pc = "done" /\ Credentialed(req[r])
          /\ req[r].status = 500 /\ req[r].err = StoreError

\* C7: with a store, a request that supplies a credential, passes the limiter
\* and finds its quota <= 0 gets 403, without a call of the generator and
\* without a change of any quota.
C7_ExhaustedForbidden ==
    \A r \in Reqs :
        (/\ hasStore /\ Credentialed(req[r])
         /\ PastLimiter(req[r]) /\ LimiterPasses(req[r])
         /\ req[r].pc # "read_quota"
         /\ req[r].current_quota <= 0)
            => /\ req[r].pc = "done" /\ req[r].status = 403
               /\ ~req[r].generated /\ ~req[r].wrote

\* A request bearing a token that has no record got 403.
C7_Witness ==
    \E r \in Reqs :
        /\ req[r].pc = "done" /\ req[r].status = 403
        /\ Bears(req[r], TokC)
        /\ TokC \notin DOMAIN store

\* The credential the request supplies fell back to limiting by address: both
\* limits were keyed by the address.
FellBack(q) ==
    /\ Credentialed(q) /\ PastLimiter(q)
    /\ q.keyMinute = q.addr /\ q.keyDay = q.addr

\* C8 as stated: a request whose credential fell back to limiting by address
\* and that passes the limiter is Allowed, with the display value "IP Limit"
\* and no quota change.
C8_FallbackAllowed ==
    \A r \in Reqs :
        (FellBack(req[r]) /\ LimiterPasses(req[r]) /\ req[r].pc = "done")
            => /\ Allowed(req[r])
               /\ req[r].quota_remaining = IpLimit
               /\ ~req[r].wrote

\* C8, amended: a request whose credential fell back to limiting by address
\* and that passes the limiter is never Allowed: it gets 403 with a store and
\* 500 "Server Database Error" without, with no quota change and no call of
\* the generator.
C8_FallbackRejected ==
    \A r \in Reqs :
        (FellBack(req[r]) /\ LimiterPasses(req[r]))
            => /\ req[r].pc \in {"read_quota", "done"}
               /\ ~req[r].wrote /\ ~req[r].generated
               /\ req[r].pc = "done" =>
                      IF hasStore THEN req[r].status = 403
                      ELSE req[r].status = 500 /\ req[r].err = StoreError

\* A request bearing the exhausted TokA (quota 0 in the store) was keyed by
\* its address, passed the limiter and got 403.
C8_Witness ==
    \E r \in Reqs :
        /\ FellBack(req[r]) /\ LimiterPasses(req[r])
        /\ Bears(req[r], TokA) /\ hasStore /\ store[TokA] = 0
        /\ req[r].pc = "done" /\ req[r].status = 403

\* The body's token is absent, empty or only whitespace.
NoCredential(b) ==
    b.tk = "absent" \/ (b.tk = "string" /\ b.token \in {Empty, <<SP>>})

\* C9: a request whose token is absent, empty or only whitespace is keyed by
\* its address, never reads or changes a quota in the handler, never gets 403
\* or the store-unavailable 500, and when it gets 200 its X-Remaining-Quota is
\* "IP Limit".
C9_NoCredentialAnonymous ==
    \A r \in Reqs :
        (req[r].pc # "idle" /\ NoCredential(req[r].body))
            => /\ req[r].pc # "limit_minute" => req[r].keyMinute = req[r].addr
               /\ PastLimiter(req[r]) => req[r].keyDay = req[r].addr
               /\ req[r].pc \notin {"read_quota", "decrement"}
               /\ ~req[r].wrote
               /\ req[r].status # 403
               /\ ~(req[r].status = 500 /\ req[r].err = StoreError)
               /\ req[r].status = 200 => req[r].quota_remaining = IpLimit

\* A request whose token is one blank got 200 with "IP Limit".
C9_Witness ==
    \E r \in Reqs :
        /\ req[r].body = TokenBody(<<SP>>)
        /\ req[r].pc = "done" /\ req[r].status = 200
        /\ req[r].quota_remaining = IpLimit

\* Admission rejected the request: 429, 403, the store-unavailable 500, 400.
Rejected(q) ==
    /\ q.pc = "done"
    /\ \/ q.status \in {429, 403, 400}
       \/ q.status = 500 /\ q.err = StoreError

Unfunded(t) == t \notin DOMAIN store \/ store[t] <= 0

C12_NonNegativeAtRest ==
    Quiescent => \A t \in DOMAIN store : store[t] >= 0

\* C13: a store write error during the decrement is swallowed: a request
\* whose decrement write failed goes on to the generator and is not answered
\* with an error because of that failure.
C13_WriteErrorSwallowed ==
    \A r \in Reqs :
        (req[r].pc = "done" /\ req[r].err = "write error")
            => req[r].generated /\ req[r].status # 500

\* C13, amended: a store write error during the decrement is surfaced: the
\* request is answered 500 with the error, the generator is not called and
\* nothing was written; no credentialed request reaches the generator without
\* its decrement having been written.
C13_WriteErrorSurfaced ==
    \A r \in Reqs :
        /\ req[r].err = "write error"
              => /\ req[r].pc = "done" /\ req[r].status = 500
                 /\ req[r].current_quota > 0
                 /\ ~req[r].generated /\ ~req[r].wrote
        /\ (Credentialed(req[r]) /\ Allowed(req[r])) => req[r].wrote

\* A request that passed the quota check, failed its write and got 500, the
\* quota still as provisioned.
C13_Witness ==
    \E r \in Reqs :
        /\ req[r].pc = "done" /\ req[r].err = "write error"
        /\ req[r].status = 500 /\ Bears(req[r], TokA)
        /\ store[TokA] = store0[TokA]

\* The slot r holds a finished direct call of decrement_token_quota.
Called(q) == q.pc = "done" /\ q.status = 0 /\ q.body.tk = "string"

\* The step is a direct call of decrement_token_quota(t) by slot r.
CallStep(r, t) ==
    /\ req[r].pc = "idle" /\ req'[r].pc = "done"
    /\ req'[r].status = 0 /\ req'[r].body = TokenBody(t)

\* C14: for every token and every store state, get_token_quota(token) right
\* after decrement_token_quota(token) is exactly one less than right before.
C14_AlwaysOneLess ==
    \A r \in Reqs :
        Called(req[r])
            => req[r].quota_remaining = Num(req[r].current_quota - 1)

\* C14, amended: for a token with a record in a configured store the reading
\* after the decrement is exactly one less than the reading before; for a
\* token with no record, or with no store, both readings are 0; and the
\* readings of every other token are the same before and after.
C14_OneLessIfRecorded ==
    /\ [](\A r \in Reqs :
            Called(req[r])
                => req[r].quota_remaining =
                       IF hasStore /\ req[r].body.token \in DOMAIN store
                       THEN Num(req[r].current_quota - 1)
                       ELSE Num(0))
    /\ [][\A r \in Reqs, t \in StoreTokens :
            CallStep(r, t)
                => \A u \in StoreTokens \ {t} :
                      get_token_quota(u)' = get_token_quota(u)]_vars

\* TokA was decremented from 1 to 0 by a direct call, TokB as provisioned.
C14_Witness ==
    \E r \in Reqs :
        /\ Called(req[r]) /\ req[r].body = TokenBody(TokA)
        /\ req[r].current_quota = 1 /\ req[r].quota_remaining = Num(0)
        /\ store[TokA] = 0 /\ store[TokB] = store0[TokB]

AddressBound(q) ==
    /\ q.pc # "idle" /\ q.body.kind = "obj"
    /\ \/ NoCredential(q.body)
       \/ /\ q.body.tk = "string"
          /\ \/ Strip(q.body.token) \notin DOMAIN store
             \/ store0[Strip(q.body.token)] <= 0

\* The requests of AddressBound kind from address a that the limit lim has
\* counted.
CountedBy(lim, a) ==
    {r \in Reqs :
        /\ req[r].addr = a /\ AddressBound(req[r])
        /\ req[r].pc \notin (IF lim = "minute" THEN {"idle", "limit_minute"}
                             ELSE {"idle", "limit_minute", "limit_day"})}

KeyOf(lim, q) == IF lim = "minute" THEN q.keyMinute ELSE q.keyDay
HitOf(lim, q) == IF lim = "minute" THEN q.hitMinute ELSE q.hitDay

\* C15: requests from one address that carry no token and requests from it
\* that carry an unknown or exhausted token are counted by the same two
\* windows: each is keyed by the bare address, each takes its own unit of the
\* one counter of that address (no two get the same hit number), and the
\* counter is at least the number of them.
C15_SharedWindows ==
    \A lim \in Limits, a \in Addrs :
        /\ count[lim][a] >= Cardinality(CountedBy(lim, a))
        /\ \A r \in CountedBy(lim, a) :
              /\ KeyOf(lim, req[r]) = a
              /\ HitOf(lim, req[r]) \in 1 .. count[lim][a]
        /\ \A r1, r2 \in CountedBy(lim, a) :
              r1 # r2 => HitOf(lim, req[r1]) # HitOf(lim, req[r2])

\* A request bearing the unknown TokC took the first unit of both windows of
\* its address and a request without token from that address the second.
C15_Witness ==
    \E r1, r2 \in Reqs :
        /\ Bears(req[r1], TokC) /\ req[r2].body = AnonBody
        /\ req[r1].addr = req[r2].addr
        /\ req[r1].pc = "done" /\ req[r2].pc = "generate"
        /\ req[r1].hitMinute = 1 /\ req[r1].hitDay = 1
        /\ req[r2].hitMinute = 2 /\ req[r2].hitDay = 2

\* C17: no request is billed twice.  Under any interleaving, a request that
\* a window of its address has counted never decrements a quota, and a request
\* that decrements (or is about to) was keyed Unmetered by both limits: the
\* handler never reads a quota > 0 after a key function read one <= 0.
C17_NeverBilledTwice ==
    \A r \in Reqs :
        /\ (req[r].wrote \/ req[r].pc = "decrement")
              => /\ req[r].keyMinute = Unmetered /\ req[r].keyDay = Unmetered
                 /\ req[r].hitMinute = 0 /\ req[r].hitDay = 0
        /\ (req[r].hitMinute > 0 \/ req[r].hitDay > 0)
              => ~req[r].wrote /\ req[r].pc # "decrement"
        /\ (Credentialed(req[r]) /\ req[r].pc = "done"
            /\ (req[r].keyMinute = req[r].addr \/ req[r].keyDay = req[r].addr)
            /\ req[r].status \notin {429, 500})
              => req[r].current_quota <= 0 /\ req[r].status = 403

\* Two requests bearing TokA raced: one decremented, keyed Unmetered twice;
\* the other read a quota > 0 for the minute key and <= 0 for the day key, was
\* counted by the day window and, refused with 403, decremented nothing.
C17_Witness ==
    \E r1, r2 \in Reqs :
        /\ Bears(req[r1], TokA) /\ Bears(req[r2], TokA)
        /\ req[r1].wrote /\ req[r1].keyDay = Unmetered
        /\ req[r2].keyMinute = Unmetered /\ req[r2].keyDay = req[r2].addr
        /\ req[r2].hitDay = 1 /\ req[r2].status = 403 /\ ~req[r2].wrote

\* C18: the quota unit is charged before the generator is called and is never
\* refunded: a credentialed request handed to the generator has written its
\* decrement, the generator step changes no quota, and when the provider then
\* fails the response is 500 and the stored quota stays at least one below
\* the quota the request read.
C18_ChargedNotRefunded ==
    /\ [](\A r \in Reqs :
            /\ (Credentialed(req[r]) /\ Allowed(req[r]))
                  => /\ req[r].wrote
                     /\ store[HandlerToken(req[r].body)]
                            <= req[r].current_quota - 1
            /\ (req[r].pc = "done" /\ req[r].err = "provider")
                  => req[r].status = 500 /\ req[r].generated)
    /\ [][\A r \in Reqs :
            (req[r].pc = "generate" /\ req'[r].pc = "done")
                => store' = store]_vars

\* A request bearing TokA read the quota 1, was charged, the provider failed:
\* 500, and the stored quota is 0.
C18_Witness ==
    \E r \in Reqs :
        /\ req[r].pc = "done" /\ Bears(req[r], TokA)
        /\ req[r].err = "provider" /\ req[r].status = 500
        /\ req[r].current_quota = 1 /\ store[TokA] = 0

\* The limiter keyed the finished or admitted request by its address for
\* both limits.
KeyedByAddress(q) ==
    /\ q.pc \in {"read_quota", "decrement", "generate", "done"}
    /\ q.keyMinute = q.addr /\ q.keyDay = q.addr

\* C19: the rate-limit check runs before the body, store and quota checks:
\* every request keyed by address has used a unit of both windows of its
\* address whatever its outcome, it is answered 429 exactly when a window was
\* already full, whatever its body, and 400, 403 and the store-unavailable 500
\* are only given to requests the limiter let through.
C19_LimiterFirst ==
    \A r \in Reqs :
        KeyedByAddress(req[r])
            => /\ req[r].hitMinute \in 1 .. count["minute"][req[r].addr]
               /\ req[r].hitDay \in 1 .. count["day"][req[r].addr]
               /\ (req[r].hitMinute > PerMinute \/ req[r].hitDay > PerDay)
                      => req[r].pc = "done" /\ req[r].status = 429
               /\ (req[r].pc = "done" /\ req[r].status = 429)
                      => (req[r].hitMinute > PerMinute \/ req[r].hitDay > PerDay)

\* An empty body, which gets 400 when let through, arrived when the minute
\* window was full and got 429, having used a unit of both windows.
C19_Witness ==
    \E r \in Reqs :
        /\ req[r].pc = "done" /\ req[r].body = FalsyBody
        /\ req[r].status = 429
        /\ req[r].hitMinute = PerMinute + 1 /\ req[r].hitDay >= 1

\* C20: both body fields are optional: a well-formed JSON object that omits
\* stage and token (the empty object {} or one with other fields only) is
\* handled as an anonymous request, handed to the generator under the display
\* value "IP Limit" once the limiter lets it through, and 400 "Invalid JSON"
\* is given only to an absent or malformed body.
C20_FieldsOptional ==
    \A r \in Reqs :
        req[r].pc = "done"
            => /\ (req[r].body \in {FalsyBody, AnonBody} /\ req[r].status # 429)
                      => /\ req[r].generated
                         /\ req[r].quota_remaining = IpLimit
                         /\ req[r].status \in {200, 500}
               /\ req[r].status = 400 => req[r].body = NoBody

====
